---------------------------- MODULE Spec2Model ----------------------------
(***************************************************************************)
(* Model of webhook-receiver.py: the Flask application that receives alert *)
(* payloads, classifies them by name, logs remediation steps and keeps a   *)
(* file-backed history (class AlertProcessor and the route handlers).      *)
(*                                                                         *)
(* Strings on which the code calls .lower() or tests substring containment *)
(* are sequences of one-character strings; other strings are TLA+ strings. *)
(* The storage file is a sequence of tokens; request handlers run in       *)
(* worker threads (app.run serves threaded) and interleave at the          *)
(* statements that touch alerts_history or the file.                       *)
(***************************************************************************)
EXTENDS Integers, Sequences, FiniteSets, TLC

(***************************************************************************)
(* Bounds of the model.                                                    *)
(***************************************************************************)
\* most requests (POST or GET) the model sends over a run
MaxRequests == 2
\* largest reading of the wall clock (readings are 0..MaxClock)
MaxClock == 1
\* alert names of the classifier study are built from at most this many fragments
MaxFrags == 2
\* most records in a storage file left by an earlier run of the process
MaxStored == 2

\* worker threads serving requests concurrently
Threads == {"t1", "t2"}

(***************************************************************************)
(* Character strings: str.lower() and the `in` substring test.             *)
(***************************************************************************)
UpperChars == <<"A","B","C","D","E","F","G","H","I","J","K","L","M",
                "N","O","P","Q","R","S","T","U","V","W","X","Y","Z">>
LowerChars == <<"a","b","c","d","e","f","g","h","i","j","k","l","m",
                "n","o","p","q","r","s","t","u","v","w","x","y","z">>

LowerChar(c) ==
    IF \E i \in 1..Len(UpperChars) : UpperChars[i] = c
    THEN LowerChars[CHOOSE i \in 1..Len(UpperChars) : UpperChars[i] = c]
    ELSE c

\* s.lower()
Lower(s) == [i \in 1..Len(s) |-> LowerChar(s[i])]

\* sub in s
Contains(sub, s) ==
    \E i \in 0..(Len(s) - Len(sub)) :
        \A j \in 1..Len(sub) : s[i + j] = sub[j]

\* the substrings the classifier looks for (lines 73-79)
K_failed_logins == <<"f","a","i","l","e","d","_","l","o","g","i","n","s">>
K_intrusion == <<"i","n","t","r","u","s","i","o","n">>
K_banned == <<"b","a","n","n","e","d">>
K_http == <<"h","t","t","p">>
K_error == <<"e","r","r","o","r">>
K_cpu == <<"c","p","u">>
K_load == <<"l","o","a","d">>

\* defaults of the .get calls
S_Unknown == <<"U","n","k","n","o","w","n">>
S_unknown == <<"u","n","k","n","o","w","n">>

(***************************************************************************)
(* Classifier: the if/elif chain of process_alert (lines 73-80).           *)
(***************************************************************************)
\* a slip that tests the http/error rule before the intrusion/banned rule
ClassifyHttpFirst(alert_name) ==
    LET n == Lower(alert_name) IN
    IF Contains(K_failed_logins, n) THEN "failed_logins"
    ELSE IF Contains(K_http, n) \/ Contains(K_error, n) THEN "http_errors"
    ELSE IF Contains(K_intrusion, n) \/ Contains(K_banned, n) THEN "intrusion"
    ELSE IF Contains(K_cpu, n) \/ Contains(K_load, n) THEN "system_issues"
    ELSE "none"

Classify(alert_name) ==
    LET n == Lower(alert_name) IN
    IF Contains(K_failed_logins, n) THEN "failed_logins"
    ELSE IF Contains(K_intrusion, n) \/ Contains(K_banned, n) THEN "intrusion"
    ELSE IF Contains(K_http, n) \/ Contains(K_error, n) THEN "http_errors"
    ELSE IF Contains(K_cpu, n) \/ Contains(K_load, n) THEN "system_issues"
    ELSE "none"


(***************************************************************************)
(* JSON values of the inbound payload.  A value the code reads with .get   *)
(* is absent, a string, or something else (number, null, list, ...); a     *)
(* nested mapping is absent, a dict, or something that is no dict.         *)
(***************************************************************************)
Absent == [t |-> "absent", s |-> <<>>]
Str(s) == [t |-> "str", s |-> s]
NotStr == [t |-> "other", s |-> <<>>]

NoDict == [t |-> "absent", v |-> Absent]
Dict(v) == [t |-> "dict", v |-> v]
NotDict == [t |-> "other", v |-> Absent]

\* request.get_json() results: kind "absent" is a request without a JSON body, "null"
\* the body null, "empty" the body {}, "array" a non-empty list, "object" a non-empty dict
Payload(kind, status, name, sev, ann) ==
    [kind |-> kind, status |-> status, groupLabels |-> name,
     commonLabels |-> sev, commonAnnotations |-> ann]

NoData == Payload("none", "", NoDict, NoDict, NoDict)

N_CPU == <<"C","P","U">>
V_High == <<"H","i","g","h">>
V_hot == <<"h","o","t">>

P_nobody == Payload("absent", "", NoDict, NoDict, NoDict)
P_null == Payload("null", "", NoDict, NoDict, NoDict)
P_emptyobj == Payload("empty", "", NoDict, NoDict, NoDict)
P_array == Payload("array", "", NoDict, NoDict, NoDict)
P_bare == Payload("object", "", NoDict, NoDict, NoDict)
P_cpu == Payload("object", "firing", Dict(Str(N_CPU)), Dict(Str(V_High)), Dict(Str(V_hot)))
P_badsev == Payload("object", "firing", Dict(Str(N_CPU)), Dict(NotStr), NoDict)
P_badname == Payload("object", "firing", Dict(NotStr), NoDict, NoDict)
P_badann == Payload("object", "resolved", Dict(Str(N_CPU)), NoDict, NotDict)

\* the request bodies the model posts
Payloads ==
    {P_nobody, P_null, P_emptyobj, P_array, P_bare, P_cpu, P_badsev, P_badname, P_badann}

\* a slip that rejects only a missing payload (`alert_data is None`)
FalsyNoneOnly(alert_data) == alert_data.kind \in {"absent", "null"}

\* `not alert_data` (line 218): None, {} and the other falsy JSON values
Falsy(alert_data) == alert_data.kind \in {"absent", "null", "empty"}

(***************************************************************************)
(* Log lines: level, message and, for the description line, its value.     *)
(***************************************************************************)
LogLine(level, msg) == [level |-> level, msg |-> msg, arg |-> <<>>]
LogArg(level, msg, arg) == [level |-> level, msg |-> msg, arg |-> arg]

\* a slip that logs every handler at warning level
HandlerLevelWarning(category) == "WARNING"

\* logger.critical in handle_failed_logins and handle_intrusion_detection,
\* logger.warning in handle_http_errors and handle_system_issues
HandlerLevel(category) ==
    IF category \in {"failed_logins", "intrusion"} THEN "CRITICAL" ELSE "WARNING"

HandlerHeader(category) ==
    CASE category = "failed_logins" -> "FAILED LOGIN ALERT DETECTED"
      [] category = "intrusion" -> "INTRUSION DETECTED - IP BANNED"
      [] category = "http_errors" -> "HIGH HTTP ERROR RATE DETECTED"
      [] OTHER -> "SYSTEM RESOURCE ALERT"

HandlerActions(category) ==
    CASE category = "failed_logins" ->
           << "1. Review /var/log/auth.log on target system",
              "2. Check source IPs of failed attempts",
              "3. Consider blocking IPs via fail2ban",
              "4. Review user account access controls",
              "5. Consider enabling MFA" >>
      [] category = "intrusion" ->
           << "1. IMMEDIATE: Verify the banned IP is malicious",
              "2. Check detailed fail2ban logs: /var/log/fail2ban.log",
              "3. Investigate attack patterns",
              "4. Review affected services (SSH, HTTP, etc.)",
              "5. Consider notification to upstream providers",
              "6. Add IP to permanent blocklist if pattern confirmed" >>
      [] category = "http_errors" ->
           << "1. Check web server error logs (nginx/apache)",
              "2. Verify backend application status",
              "3. Check database connectivity",
              "4. Review resource utilization (disk, memory)",
              "5. Consider DDoS mitigation if sudden spike" >>
      [] OTHER ->
           << "1. Identify top processes using resources: ps aux | sort -k3,3 -nr",
              "2. Check for memory leaks or zombie processes",
              "3. Review running services for unnecessary load",
              "4. Consider auto-scaling if in cloud environment",
              "5. Plan capacity upgrade if baseline trending high" >>

\* handle_failed_logins / handle_intrusion_detection / handle_http_errors /
\* handle_system_issues: the lines logged, and whether annotations.get raised
Handle(category, alert_data) ==
    LET level == HandlerLevel(category)
        ann == alert_data.commonAnnotations
        header == << LogLine(level, HandlerHeader(category)) >>
        description == IF ann.t = "dict" /\ ann.v.t = "str" THEN ann.v.s ELSE S_Unknown
        acts == HandlerActions(category)
    IN  IF ann.t = "other"
        THEN [raised |-> TRUE, log |-> header]
        ELSE [raised |-> FALSE,
              log |-> header \o << LogArg(level, "Description", description) >>
                      \o [i \in 1..Len(acts) |-> LogLine(level, acts[i])]]

(***************************************************************************)
(* process_alert up to the construction of the record (lines 61-89, 95-97).*)
(* Result: whether an exception was raised, the extracted fields, the      *)
(* category and the lines logged.                                          *)
(***************************************************************************)
Extract(alert_data) ==
    LET gl == alert_data.groupLabels
        cl == alert_data.commonLabels
        status == IF alert_data.status = "" THEN "unknown" ELSE alert_data.status
        alert_name == IF gl.t = "dict" /\ gl.v.t # "absent" THEN gl.v ELSE Str(S_Unknown)
        sevraw == IF cl.t = "dict" /\ cl.v.t # "absent" THEN cl.v ELSE Str(S_unknown)
        failed == [raised |-> TRUE, name |-> <<>>, severity |-> <<>>, status |-> status,
                   category |-> "none", log |-> << LogLine("ERROR", "Error processing alert") >>]
    IN  IF alert_data.kind \notin {"object", "empty"} \/ gl.t = "other" \/ cl.t = "other" \/ sevraw.t # "str"
        THEN failed
        ELSE LET severity == Lower(sevraw.s)
                 info == << LogLine("INFO", "Processing alert") >>
             IN  IF alert_name.t # "str"
                 THEN [failed EXCEPT !.log = info \o failed.log]
                 ELSE LET category == Classify(alert_name.s)
                          h == IF category = "none"
                               THEN [raised |-> FALSE, log |-> <<>>]
                               ELSE Handle(category, alert_data)
                      IN  IF h.raised
                          THEN [failed EXCEPT !.log = info \o h.log \o failed.log]
                          ELSE [raised |-> FALSE, name |-> alert_name.s,
                                severity |-> severity, status |-> status,
                                category |-> category, log |-> info \o h.log]

\* a slip that stores the severity as the payload spells it
AlertRecordRawSeverity(timestamp, x, alert_data) ==
    [timestamp |-> timestamp, name |-> x.name,
     severity |-> IF alert_data.commonLabels.t = "dict" /\ alert_data.commonLabels.v.t = "str"
                  THEN alert_data.commonLabels.v.s ELSE x.severity,
     status |-> x.status, data |-> alert_data]

\* the record built at lines 83-89
AlertRecord(timestamp, x, alert_data) ==
    [timestamp |-> timestamp, name |-> x.name, severity |-> x.severity,
     status |-> x.status, data |-> alert_data]

(***************************************************************************)
(* The storage file: json.dump writes the list as a stream of tokens,      *)
(* json.load accepts exactly a bracketed list of record tokens.            *)
(***************************************************************************)
TokLB == [t |-> "[", r |-> <<>>]
TokRB == [t |-> "]", r |-> <<>>]
TokRec(r) == [t |-> "rec", r |-> <<r>>]

\* json.dump(self.alerts_history, f, indent=2, default=str)
Serialize(h) == <<TokLB>> \o [i \in 1..Len(h) |-> TokRec(h[i])] \o <<TokRB>>

\* whether json.load succeeds on the tokens
WellFormed(toks) ==
    /\ Len(toks) >= 2
    /\ toks[1] = TokLB
    /\ toks[Len(toks)] = TokRB
    /\ \A i \in 2..(Len(toks) - 1) : toks[i].t = "rec"

\* json.load(f) of a well-formed file
Parse(toks) == [i \in 1..(Len(toks) - 2) |-> toks[i + 1].r[1]]

\* f.write at offset 0 of a file opened without O_APPEND: bytes beyond the
\* written ones stay
Overwrite(content, buf) ==
    IF Len(buf) >= Len(content) THEN buf
    ELSE buf \o SubSeq(content, Len(buf) + 1, Len(content))

NoFile == [exists |-> FALSE, content |-> <<>>]

\* a slip that parses the file and drops the result
LoadHistoryDropped(f) == <<>>

\* load_history (lines 42-49) started from an empty alerts_history
LoadHistory(f) ==
    IF f.exists /\ WellFormed(f.content) THEN Parse(f.content) ELSE <<>>

\* a slip that swallows the exception of json.load without a log line
LoadLogSilent(f) == <<>>

\* what load_history logs: the warning of line 49, reached only from inside the
\* `if self.alerts_file.exists()` of line 44
LoadLog(f) ==
    IF f.exists /\ ~WellFormed(f.content)
    THEN << LogLine("WARNING", "Could not load alert history") >>
    ELSE <<>>


(***************************************************************************)
(* Query helpers.                                                          *)
(***************************************************************************)
\* default of request.args.get('limit', 100, type=int) (line 249)
DefaultLimit == 100

NoLimit == [given |-> FALSE, n |-> 0]
Limit(n) == [given |-> TRUE, n |-> n]

\* the limit query arguments the model sends
Limits == {NoLimit} \cup {Limit(n) : n \in -1..2}

\* the severities the model asks GET /alerts/<severity> for
V_high == <<"h","i","g","h">>
V_HIGH == <<"H","I","G","H">>
Severities == {V_high, V_HIGH, S_unknown}

\* Python's lst[start:] for any integer start
SliceFrom(h, start) ==
    LET n == Len(h)
        lo == IF start < 0 THEN (IF n + start < 0 THEN 0 ELSE n + start)
              ELSE (IF start > n THEN n ELSE start)
    IN  SubSeq(h, lo + 1, n)

\* processor.alerts_history[-limit:] (line 250)
Recent(h, limit) == SliceFrom(h, 0 - limit)

\* a slip that compares with the severity as the URL spells it
FilterBySeverityExact(h, severity) ==
    SelectSeq(h, LAMBDA a : a.severity = severity)

\* [a for a in processor.alerts_history if a.get('severity') == severity.lower()]
FilterBySeverity(h, severity) ==
    SelectSeq(h, LAMBDA a : a.severity = Lower(severity))

\* the loop of get_statistics (lines 187-195): a dict counting the values of one key
RECURSIVE CountBy(_, _, _)
CountBy(h, key, acc) ==
    IF h = <<>> THEN acc
    ELSE LET k == IF key = "severity" THEN Head(h).severity ELSE Head(h).name
             old == IF k \in DOMAIN acc THEN acc[k] ELSE 0
         IN  CountBy(Tail(h), key,
                     [x \in (DOMAIN acc) \cup {k} |-> IF x = k THEN old + 1 ELSE acc[x]])

EmptyDict == [x \in {} |-> 0]

\* size of the `recent` slice of get_statistics (line 201)
StatsRecent == 10

(***************************************************************************)
(* State.                                                                  *)
(***************************************************************************)
VARIABLES
    alerts_history,   \* processor.alerts_history
    file,             \* alerts_received.json: [exists, content]
    thr,              \* per worker thread: the request it serves and its locals
    now,              \* the latest reading of the wall clock by datetime.now()
    save_failed,      \* "Error saving alert history" was logged since the process started
    startup_log,      \* the lines load_history logged when the process started
    served,           \* requests accepted so far (bounds the run)
    cl_name,          \* classifier study: the alert name given
    cl_category       \* classifier study: the category computed ("unset" before)

vars == <<alerts_history, file, thr, now, save_failed, startup_log, served, cl_name, cl_category>>

NoResp == [code |-> 0, status |-> "", ack |-> <<>>, records |-> <<>>, stats |-> <<>>]

\* a worker thread between requests
Idle ==
    [pc |-> "idle", kind |-> "none", data |-> NoData, limit |-> NoLimit, sev |-> <<>>,
     rec |-> <<>>, pos |-> 0, buf |-> <<>>, total |-> 0, counts |-> <<>>,
     log |-> <<>>, resp |-> NoResp]

\* a free worker thread accepts the next request
Accept(t) ==
    /\ thr[t].pc \in {"idle", "done"}
    /\ served < MaxRequests
    /\ served' = served + 1

\* a slip that acknowledges the severity as the payload spells it
AckRawSeverity(r) ==
    [alert_name |-> r.name,
     severity |-> IF r.data.commonLabels.t = "dict" /\ r.data.commonLabels.v.t = "str"
                  THEN r.data.commonLabels.v.s ELSE r.severity,
     timestamp |-> r.timestamp]

\* the fields of the acknowledgment (lines 228-233)
Ack(r) == [alert_name |-> r.name, severity |-> r.severity, timestamp |-> r.timestamp]

(***************************************************************************)
(* processor = AlertProcessor() at module import with no storage file yet. *)
(***************************************************************************)
Init ==
    /\ file = NoFile
    /\ alerts_history = LoadHistory(file)
    /\ thr = [t \in Threads |-> Idle]
    /\ now = 0
    /\ save_failed = FALSE
    /\ startup_log = LoadLog(file)
    /\ served = 0
    /\ cl_name = <<>>
    /\ cl_category = "unset"

study == <<cl_name, cl_category>>

\* what only save_history and a restart change
rest == <<save_failed, startup_log, cl_name, cl_category>>

\* the process is stopped and started again: __init__ runs load_history
Restart ==
    /\ alerts_history' = LoadHistory(file)
    /\ thr' = [t \in Threads |-> Idle]
    /\ save_failed' = FALSE
    /\ startup_log' = LoadLog(file)
    /\ UNCHANGED <<file, now, served, study>>

(***************************************************************************)
(* POST /alerts                                                            *)
(***************************************************************************)
\* a slip that logs the inbound payload at debug level, which the INFO
\* configuration of line 20 drops
ReceiveDebug(t, body) ==
    /\ Accept(t)
    /\ \E raises \in (IF body.kind = "absent" THEN BOOLEAN ELSE {FALSE}) :
         LET fresh == [Idle EXCEPT !.kind = "post", !.data = body] IN
         thr' = [thr EXCEPT ![t] =
            IF raises
            THEN [fresh EXCEPT !.pc = "done",
                               !.log = << LogLine("ERROR", "Error in receive_alert") >>,
                               !.resp = [NoResp EXCEPT !.code = 500, !.status = "exception"]]
            ELSE IF Falsy(body)
            THEN [fresh EXCEPT !.pc = "done",
                               !.log = << LogLine("WARNING", "Received empty alert payload") >>,
                               !.resp = [NoResp EXCEPT !.code = 400, !.status = "Empty payload"]]
            ELSE [fresh EXCEPT !.pc = "process"]]
    /\ UNCHANGED <<alerts_history, file, now, rest>>

\* receive_alert lines 215-222 (and 237-239 when get_json raises)
Receive(t, body) ==
    /\ Accept(t)
    /\ \E raises \in (IF body.kind = "absent" THEN BOOLEAN ELSE {FALSE}) :
         LET fresh == [Idle EXCEPT !.kind = "post", !.data = body] IN
         thr' = [thr EXCEPT ![t] =
            IF raises
            THEN [fresh EXCEPT !.pc = "done",
                               !.log = << LogLine("ERROR", "Error in receive_alert") >>,
                               !.resp = [NoResp EXCEPT !.code = 500, !.status = "exception"]]
            ELSE IF Falsy(body)
            THEN [fresh EXCEPT !.pc = "done",
                               !.log = << LogLine("WARNING", "Received empty alert payload") >>,
                               !.resp = [NoResp EXCEPT !.code = 400, !.status = "Empty payload"]]
            ELSE [fresh EXCEPT !.pc = "process",
                               !.log = << LogLine("INFO", "Received alert payload") >>]]
    /\ UNCHANGED <<alerts_history, file, now, rest>>

\* a slip that stores the record before the handlers run, so that a handler's
\* exception leaves it in the history
ProcessStoresFirst(t) ==
    /\ thr[t].pc = "process"
    /\ LET x == Extract(thr[t].data) IN
       IF x.raised
       THEN /\ thr' = [thr EXCEPT ![t] =
                  [@ EXCEPT !.pc = "done", !.log = @ \o x.log,
                            !.resp = [NoResp EXCEPT !.code = 500, !.status = "error"]]]
            /\ alerts_history' = Append(alerts_history, AlertRecord(now, x, thr[t].data))
            /\ now' = now
       ELSE /\ now' \in {c \in {now, now + 1} : c <= MaxClock}
            /\ alerts_history' = alerts_history
            /\ thr' = [thr EXCEPT ![t] =
                  [@ EXCEPT !.pc = "append", !.log = @ \o x.log,
                            !.rec = << AlertRecord(now', x, thr[t].data) >>]]
    /\ UNCHANGED <<file, served, rest>>

\* process_alert lines 61-89 and 95-97, receive_alert lines 234-235; datetime.now()
\* (line 84) reads the previous reading of the clock or a later one
Process(t) ==
    /\ thr[t].pc = "process"
    /\ LET x == Extract(thr[t].data) IN
       IF x.raised
       THEN /\ thr' = [thr EXCEPT ![t] =
                  [@ EXCEPT !.pc = "done", !.log = @ \o x.log,
                            !.resp = [NoResp EXCEPT !.code = 500, !.status = "error"]]]
            /\ now' = now
       ELSE /\ now' \in {c \in {now, now + 1} : c <= MaxClock}
            /\ thr' = [thr EXCEPT ![t] =
                  [@ EXCEPT !.pc = "append", !.log = @ \o x.log,
                            !.rec = << AlertRecord(now', x, thr[t].data) >>]]
    /\ UNCHANGED <<alerts_history, file, served, rest>>

\* a slip that puts the new record first (insert(0, alert_record))
AppendRecordFirst(t) ==
    /\ thr[t].pc = "append"
    /\ alerts_history' = << thr[t].rec[1] >> \o alerts_history
    /\ thr' = [thr EXCEPT ![t] = [@ EXCEPT !.pc = "open", !.pos = 1]]
    /\ UNCHANGED <<file, now, served, rest>>

\* a slip that rebuilds the list from the storage file before appending
AppendToStored(t) ==
    /\ thr[t].pc = "append"
    /\ alerts_history' = Append(LoadHistory(file), thr[t].rec[1])
    /\ thr' = [thr EXCEPT ![t] = [@ EXCEPT !.pc = "open", !.pos = Len(LoadHistory(file)) + 1]]
    /\ UNCHANGED <<file, now, served, rest>>

\* self.alerts_history.append(alert_record) (line 90)
AppendRecord(t) ==
    /\ thr[t].pc = "append"
    /\ alerts_history' = Append(alerts_history, thr[t].rec[1])
    /\ thr' = [thr EXCEPT ![t] = [@ EXCEPT !.pc = "open", !.pos = Len(alerts_history) + 1]]
    /\ UNCHANGED <<file, now, served, rest>>

\* what receive_alert answers once process_alert returned the record (lines 227-233)
Processed(s) ==
    [s EXCEPT !.pc = "done",
              !.resp = [NoResp EXCEPT !.code = 200, !.status = "processed",
                                      !.ack = << Ack(s.rec[1]) >>]]

\* a slip that reports the failed write as a processing error
SaveFailedAnswers500(s) ==
    [s EXCEPT !.pc = "done",
              !.log = @ \o << LogLine("ERROR", "Error saving alert history") >>,
              !.resp = [NoResp EXCEPT !.code = 500, !.status = "error"]]

\* save_history logged its exception (line 57) and process_alert returns the record
SaveFailed(s) ==
    Processed([s EXCEPT !.log = @ \o << LogLine("ERROR", "Error saving alert history") >>])

\* save_history: open(self.alerts_file, 'w') truncates the file (line 54)
OpenFile(t) ==
    /\ thr[t].pc = "open"
    /\ file' = [exists |-> TRUE, content |-> <<>>]
    /\ thr' = [thr EXCEPT ![t] = [@ EXCEPT !.pc = "dump"]]
    /\ UNCHANGED <<alerts_history, now, served, rest>>

\* save_history: open fails, the exception is logged (lines 56-57)
OpenFails(t) ==
    /\ thr[t].pc = "open"
    /\ thr' = [thr EXCEPT ![t] = SaveFailed(@)]
    /\ save_failed' = TRUE
    /\ UNCHANGED <<alerts_history, file, now, served, startup_log, study>>

\* save_history: json.dump encodes the list into the file object's buffer (line 55)
Dump(t) ==
    /\ thr[t].pc = "dump"
    /\ thr' = [thr EXCEPT ![t] = [@ EXCEPT !.pc = "close", !.buf = Serialize(alerts_history)]]
    /\ UNCHANGED <<alerts_history, file, now, served, rest>>

\* save_history: leaving the with block flushes the buffer at offset 0
CloseFile(t) ==
    /\ thr[t].pc = "close"
    /\ file' = [exists |-> TRUE, content |-> Overwrite(file.content, thr[t].buf)]
    /\ thr' = [thr EXCEPT ![t] = Processed(@)]
    /\ UNCHANGED <<alerts_history, now, served, rest>>

\* save_history: the flush fails after k tokens (disk full), the exception is logged
CloseFails(t) ==
    /\ thr[t].pc = "close"
    /\ \E k \in 0..(Len(thr[t].buf) - 1) :
         file' = [exists |-> TRUE,
                  content |-> Overwrite(file.content, SubSeq(thr[t].buf, 1, k))]
    /\ thr' = [thr EXCEPT ![t] = SaveFailed(@)]
    /\ save_failed' = TRUE
    /\ UNCHANGED <<alerts_history, now, served, startup_log, study>>


(***************************************************************************)
(* GET /stats, GET /alerts-history, GET /alerts/<severity>                 *)
(***************************************************************************)
\* get_statistics line 186: total_alerts = len(self.alerts_history)
StatsLen(t) ==
    /\ Accept(t)
    /\ thr' = [thr EXCEPT ![t] =
          [Idle EXCEPT !.pc = "stats_loop", !.kind = "stats",
                       !.total = Len(alerts_history)]]
    /\ UNCHANGED <<alerts_history, file, now, rest>>

\* get_statistics lines 187-195: the loop over self.alerts_history
StatsLoop(t) ==
    /\ thr[t].pc = "stats_loop"
    /\ thr' = [thr EXCEPT ![t] =
          [@ EXCEPT !.pc = "stats_return",
                    !.counts = << [by_severity |-> CountBy(alerts_history, "severity", EmptyDict),
                                   by_name |-> CountBy(alerts_history, "name", EmptyDict)] >>]]
    /\ UNCHANGED <<alerts_history, file, now, served, rest>>

\* get_statistics lines 197-202 and get_stats line 244
StatsReturn(t) ==
    /\ thr[t].pc = "stats_return"
    /\ thr' = [thr EXCEPT ![t] =
          [@ EXCEPT !.pc = "done",
                    !.resp = [NoResp EXCEPT
                        !.code = 200,
                        !.stats = << [total |-> thr[t].total,
                                      by_severity |-> thr[t].counts[1].by_severity,
                                      by_name |-> thr[t].counts[1].by_name,
                                      recent |-> Recent(alerts_history, StatsRecent)] >>]]]
    /\ UNCHANGED <<alerts_history, file, now, served, rest>>

\* a slip that trims the history to the slice it returns
GetAlertsHistoryTrims(t, lim) ==
    /\ Accept(t)
    /\ LET limit == IF lim.given THEN lim.n ELSE DefaultLimit IN
       /\ thr' = [thr EXCEPT ![t] =
             [Idle EXCEPT !.pc = "done", !.kind = "history", !.limit = lim,
                          !.resp = [NoResp EXCEPT !.code = 200,
                                                  !.records = Recent(alerts_history, limit)]]]
       /\ alerts_history' = Recent(alerts_history, limit)
    /\ UNCHANGED <<file, now, rest>>

\* get_alerts_history (lines 246-250)
GetAlertsHistory(t, lim) ==
    /\ Accept(t)
    /\ LET limit == IF lim.given THEN lim.n ELSE DefaultLimit IN
       thr' = [thr EXCEPT ![t] =
          [Idle EXCEPT !.pc = "done", !.kind = "history", !.limit = lim,
                       !.resp = [NoResp EXCEPT !.code = 200,
                                               !.records = Recent(alerts_history, limit)]]]
    /\ UNCHANGED <<alerts_history, file, now, rest>>

\* get_alerts_by_severity (lines 252-256)
GetAlertsBySeverity(t, severity) ==
    /\ Accept(t)
    /\ thr' = [thr EXCEPT ![t] =
          [Idle EXCEPT !.pc = "done", !.kind = "severity", !.sev = severity,
                       !.resp = [NoResp EXCEPT
                           !.code = 200,
                           !.records = FilterBySeverity(alerts_history, severity)]]]
    /\ UNCHANGED <<alerts_history, file, now, rest>>

Next ==
    \/ Restart
    \/ \E t \in Threads :
         \/ \E body \in Payloads : Receive(t, body)
         \/ Process(t)
         \/ AppendRecord(t)
         \/ OpenFile(t)
         \/ OpenFails(t)
         \/ Dump(t)
         \/ CloseFile(t)
         \/ CloseFails(t)
         \/ StatsLen(t)
         \/ StatsLoop(t)
         \/ StatsReturn(t)
         \/ \E lim \in Limits : GetAlertsHistory(t, lim)
         \/ \E severity \in Severities : GetAlertsBySeverity(t, severity)

Spec == Init /\ [][Next]_vars

(***************************************************************************)
(* Classifier study: the if/elif chain applied to names built from the     *)
(* fragments below.                                                        *)
(***************************************************************************)
Fragments ==
    << <<"F","a","i","l","e","d","_","L","o","g","i","n","s">>,
       <<"I","N","T","R","U","S","I","O","N">>,
       <<"b","a","n","n","e","d">>,
       <<"H","t","t","p">>,
       <<"e","r","r","o","r">>,
       <<"C","P","U">>,
       <<"l","o","a","d">>,
       <<"f","a","i","l","e","d">>,
       <<"_","l","o","g","i","n","s">>,
       <<"x">> >>

RECURSIVE Concat(_)
Concat(ss) == IF ss = <<>> THEN <<>> ELSE Head(ss) \o Concat(Tail(ss))

\* every concatenation of at most MaxFrags fragments
Names ==
    UNION { { Concat([i \in 1..k |-> Fragments[f[i]]]) :
                f \in [1..k -> 1..Len(Fragments)] } : k \in 0..MaxFrags }

InitClassifier ==
    /\ file = NoFile
    /\ alerts_history = LoadHistory(file)
    /\ thr = [t \in Threads |-> Idle]
    /\ now = 0
    /\ save_failed = FALSE
    /\ startup_log = LoadLog(file)
    /\ served = 0
    /\ cl_name \in Names
    /\ cl_category = "unset"

\* process_alert is given cl_name and reaches line 82
ClassifyStep ==
    /\ cl_category = "unset"
    /\ cl_category' = Classify(cl_name)
    /\ UNCHANGED <<alerts_history, file, thr, now, save_failed, startup_log, served, cl_name>>

NextClassifier == ClassifyStep

SpecClassifier == InitClassifier /\ [][NextClassifier]_vars

(***************************************************************************)
(* Query study: the process starts on a storage file that an earlier run   *)
(* left complete, and serves GET requests only.                            *)
(***************************************************************************)
\* the records process_alert builds for the payloads it accepts
StoredRecords == { AlertRecord(0, Extract(p), p) : p \in {q \in Payloads : ~Falsy(q) /\ ~Extract(q).raised} }

\* the histories an earlier run saved
StoredHistories == UNION { [1..k -> StoredRecords] : k \in 0..MaxStored }

InitQuery ==
    /\ \E h \in StoredHistories : file = [exists |-> TRUE, content |-> Serialize(h)]
    /\ alerts_history = LoadHistory(file)
    /\ thr = [t \in Threads |-> Idle]
    /\ now = 0
    /\ save_failed = FALSE
    /\ startup_log = LoadLog(file)
    /\ served = 0
    /\ cl_name = <<>>
    /\ cl_category = "unset"

NextQuery ==
    \/ Restart
    \/ \E t \in Threads :
         \/ StatsLen(t)
         \/ StatsLoop(t)
         \/ StatsReturn(t)
         \/ \E lim \in Limits : GetAlertsHistory(t, lim)
         \/ \E severity \in Severities : GetAlertsBySeverity(t, severity)

SpecQuery == InitQuery /\ [][NextQuery]_vars

(***************************************************************************)
(* Handler study: one worker thread ingests alerts named cl_name, with     *)
(* and without a description annotation.                                   *)
(***************************************************************************)
Worker == CHOOSE t \in Threads : TRUE

\* the alert names of the handler study: every fragment by itself
HandlerNames == { Fragments[i] : i \in 1..Len(Fragments) }

InitHandlers ==
    /\ file = NoFile
    /\ alerts_history = LoadHistory(file)
    /\ thr = [t \in Threads |-> Idle]
    /\ now = 0
    /\ save_failed = FALSE
    /\ startup_log = LoadLog(file)
    /\ served = 0
    /\ cl_name \in HandlerNames
    /\ cl_category = "unset"

\* the payloads of the handler study
NamedPayloads ==
    { Payload("object", "firing", Dict(Str(cl_name)), NoDict, ann) :
        ann \in {NoDict, Dict(Absent), Dict(Str(V_hot))} }

NextHandlers ==
    \/ \E body \in NamedPayloads : Receive(Worker, body)
    \/ Process(Worker)
    \/ AppendRecord(Worker)
    \/ OpenFile(Worker)
    \/ Dump(Worker)
    \/ CloseFile(Worker)

SpecHandlers == InitHandlers /\ [][NextHandlers]_vars


(***************************************************************************)
(* Properties.                                                             *)
(***************************************************************************)
\* a POST /alerts request that was answered
DonePost(t) == thr[t].kind = "post" /\ thr[t].pc = "done"

\* a POST /alerts request is being handled
PostInProgress == \E t \in Threads : thr[t].kind = "post" /\ thr[t].pc # "done"

SaveErrorLine == LogLine("ERROR", "Error saving alert history")

\* the request of thread t logged a failed storage write
SaveErrorLogged(s) == \E i \in 1..Len(s.log) : s.log[i] = SaveErrorLine

\* the storage file parses as a JSON array
FileComplete == file.exists /\ WellFormed(file.content)

IsPrefix(a, b) == Len(a) <= Len(b) /\ SubSeq(b, 1, Len(a)) = a

\* C1: when two POST /alerts requests ran concurrently, both were answered 200 and
\* no storage write failed, the storage file holds both records.
C1_NoLostUpdate ==
    (/\ \A t \in Threads : DonePost(t) /\ thr[t].resp.code = 200 /\ ~SaveErrorLogged(thr[t])
     /\ ~save_failed)
    => /\ FileComplete
       /\ \A t \in Threads :
            \E i \in 1..Len(Parse(file.content)) : Parse(file.content)[i] = thr[t].rec[1]

\* C2: with no request in progress and no failed storage write since the process
\* started, load_history on the storage file yields the in-memory history.
C2_RoundTrip ==
    ((\A t \in Threads : thr[t].pc \in {"idle", "done"}) /\ ~save_failed)
    => LoadHistory(file) = alerts_history

PlainLog == << LogLine("INFO", "Received alert payload"), LogLine("INFO", "Processing alert") >>

\* the answer and effects the claim C4 gives for a body without the expected fields
SucceedsWithDefaults(t) ==
    /\ thr[t].resp.code = 200
    /\ thr[t].resp.status = "processed"
    /\ Len(thr[t].resp.ack) = 1
    /\ thr[t].resp.ack[1].alert_name = S_Unknown
    /\ thr[t].resp.ack[1].severity = S_unknown
    /\ IsPrefix(PlainLog, thr[t].log)
    /\ \A i \in 1..Len(thr[t].log) : thr[t].log[i].level \notin {"CRITICAL", "WARNING"}
    /\ thr[t].pos \in 1..Len(alerts_history)
    /\ alerts_history[thr[t].pos] = thr[t].rec[1]
    /\ alerts_history[thr[t].pos].data = thr[t].data

C5_AtMostLimit ==
    \A t \in Threads :
       (thr[t].kind = "history" /\ thr[t].pc = "done" /\ thr[t].limit.given
            /\ thr[t].limit.n >= 0)
       => Len(thr[t].resp.records) <= thr[t].limit.n


\* thread t takes a step of a POST /alerts request that ends, or may yet end, in 400 or 500
RejectingStep(t) ==
    /\ thr'[t] # thr[t]
    /\ thr'[t].kind = "post"
    /\ \/ thr'[t].pc = "process"
       \/ thr'[t].pc = "done" /\ thr'[t].resp.code \in {400, 500}

\* C6: a POST /alerts answered 400 or 500 stores no record: no step of the request
\* changes the history or the storage file, it never reaches the append, and its
\* thread ends free for the next request.
C6_RejectedStoresNothing ==
    [][\A t \in Threads :
          RejectingStep(t)
          => /\ alerts_history' = alerts_history
             /\ file' = file
             /\ thr'[t].rec = <<>>
             /\ thr'[t].pos = 0
             /\ (thr'[t].resp.code \in {400, 500} => thr'[t].pc = "done")]_vars

\* C6 witness: a request failed in its handler after another one was stored
C6_Witness ==
    \E t, u \in Threads :
       /\ DonePost(t) /\ thr[t].resp.code = 500 /\ thr[t].data = P_badann
       /\ DonePost(u) /\ thr[u].resp.code = 200
       /\ alerts_history = thr[u].rec
       /\ FileComplete /\ Parse(file.content) = alerts_history

\* thread t's save_history fails in this step
SaveFailsStep(t) ==
    /\ thr[t].pc \in {"open", "close"}
    /\ SaveErrorLogged(thr'[t])

\* thread t's save_history completes its write in this step
SaveSucceedsStep(t) ==
    /\ thr[t].pc = "close"
    /\ thr'[t].pc = "done"
    /\ ~SaveErrorLogged(thr'[t])

\* C7: a failed storage write leaves the appended record in the history, the request
\* is answered 200 'processed' and ends without a second write; a later request's
\* successful write stores the whole history, the earlier record included.
C7_FailedWriteKeepsRecord ==
    [][\A t \in Threads :
          /\ SaveFailsStep(t)
             => /\ alerts_history' = alerts_history
                /\ alerts_history'[thr[t].pos] = thr[t].rec[1]
                /\ thr'[t].pc = "done"
                /\ thr'[t].resp.code = 200
                /\ thr'[t].resp.status = "processed"
                /\ Len(thr'[t].resp.ack) = 1
                /\ thr'[t].resp.ack[1].alert_name = thr[t].rec[1].name
                /\ thr'[t].resp.ack[1].timestamp = thr[t].rec[1].timestamp
          /\ \A u \in Threads :
                (/\ SaveSucceedsStep(t)
                 /\ DonePost(u) /\ SaveErrorLogged(thr[u])
                 /\ thr[u].pos < thr[t].pos)
                => /\ file'.exists
                   /\ file'.content = Serialize(alerts_history')
                   /\ LoadHistory(file') = alerts_history'
                   /\ alerts_history'[thr[u].pos] = thr[u].rec[1]]_vars

\* C7 witness: the write of the first record failed, the next request wrote both
C7_Witness ==
    \E t, u \in Threads :
       /\ DonePost(u) /\ SaveErrorLogged(thr[u]) /\ thr[u].pos = 1
       /\ DonePost(t) /\ ~SaveErrorLogged(thr[t]) /\ thr[t].pos = 2
       /\ thr[t].resp.code = 200 /\ thr[u].resp.code = 200
       /\ FileComplete /\ Parse(file.content) = alerts_history
       /\ Len(alerts_history) = 2

\* the classifier as a priority list: the keywords of each rule and its category
Rules ==
    << [keys |-> {K_failed_logins}, category |-> "failed_logins"],
       [keys |-> {K_intrusion, K_banned}, category |-> "intrusion"],
       [keys |-> {K_http, K_error}, category |-> "http_errors"],
       [keys |-> {K_cpu, K_load}, category |-> "system_issues"] >>

RuleMatches(i, n) == \E k \in Rules[i].keys : Contains(k, n)

\* the category of the first rule that matches the lower-cased name, else none
FirstMatch(n) ==
    IF \E i \in 1..Len(Rules) : RuleMatches(i, n)
    THEN Rules[CHOOSE i \in 1..Len(Rules) :
                  RuleMatches(i, n) /\ \A j \in 1..(i - 1) : ~RuleMatches(j, n)].category
    ELSE "none"

\* C8: the category selected for a name is that of the first rule, in the fixed order,
\* with a keyword contained in the lower-cased name (none when no rule matches); a name
\* containing 'intrusion' or 'banned' and not 'failed_logins' yields intrusion.
C8_FirstMatchWins ==
    cl_category # "unset"
    => /\ cl_category = FirstMatch(Lower(cl_name))
       /\ ((Contains(K_intrusion, Lower(cl_name)) \/ Contains(K_banned, Lower(cl_name)))
            => cl_category = (IF Contains(K_failed_logins, Lower(cl_name))
                              THEN "failed_logins" ELSE "intrusion"))

\* C8 witness: a name with 'intrusion' and 'http' in it was classified intrusion
C8_Witness ==
    /\ cl_category = "intrusion"
    /\ Contains(K_http, Lower(cl_name))
    /\ cl_name # Lower(cl_name)

\* the sum of the counts of a dict
RECURSIVE SumCounts(_)
SumCounts(d) ==
    IF DOMAIN d = {} THEN 0
    ELSE LET k == CHOOSE x \in DOMAIN d : TRUE
         IN  d[k] + SumCounts([x \in (DOMAIN d) \ {k} |-> d[x]])

\* C9: the statistics returned by GET /stats have the counts of by_severity and the
\* counts of by_name each summing to total.
C9_StatsConsistent ==
    \A t \in Threads :
       (thr[t].kind = "stats" /\ thr[t].pc = "done")
       => /\ SumCounts(thr[t].resp.stats[1].by_severity) = thr[t].resp.stats[1].total
          /\ SumCounts(thr[t].resp.stats[1].by_name) = thr[t].resp.stats[1].total

\* the acknowledgment carries the name, severity and timestamp of record r
AckOf(ack, r) ==
    /\ ack.alert_name = r.name
    /\ ack.severity = r.severity
    /\ ack.timestamp = r.timestamp

\* thread t was answered 200 for the latest record of the history
AckedLatest(t) ==
    /\ DonePost(t)
    /\ thr[t].resp.code = 200
    /\ thr[t].pos = Len(alerts_history)

\* the severity the payload carries, 'unknown' when it carries none
PayloadSeverity(alert_data) ==
    IF alert_data.commonLabels.t = "dict" /\ alert_data.commonLabels.v.t = "str"
    THEN alert_data.commonLabels.v.s ELSE S_unknown

SameLetter(c, d) ==
    c = d \/ \E i \in 1..Len(UpperChars) : {c, d} = {UpperChars[i], LowerChars[i]}

\* two strings that are equal ignoring case
EqualIgnoringCase(a, b) ==
    Len(a) = Len(b) /\ \A i \in 1..Len(a) : SameLetter(a[i], b[i])

\* a GET /alerts/<severity> request that was answered
DoneSeverity(t) == thr[t].kind = "severity" /\ thr[t].pc = "done"

\* C11: over a history loaded from storage at startup, GET /alerts/<severity>
\* answers exactly the records whose severity equals the requested one ignoring
\* case, in the order of the history, and two requests whose severities differ
\* only in case get the same answer.
C11_SeverityFilter ==
    \A t \in Threads : DoneSeverity(t) =>
        /\ thr[t].resp.code = 200
        /\ thr[t].resp.records =
             SelectSeq(alerts_history, LAMBDA a : EqualIgnoringCase(a.severity, thr[t].sev))
        /\ \A u \in Threads :
             DoneSeverity(u) /\ EqualIgnoringCase(thr[u].sev, thr[t].sev)
                => thr[u].resp.records = thr[t].resp.records

\* requests for HIGH and for high were both answered the one matching record of
\* a history of two records
C11_Witness ==
    \E t, u \in Threads :
        /\ DoneSeverity(t) /\ thr[t].sev = V_HIGH
        /\ DoneSeverity(u) /\ thr[u].sev = V_high
        /\ Len(alerts_history) = 2
        /\ Len(thr[t].resp.records) = 1
        /\ thr[t].resp.records[1] = alerts_history[2]

\* a step of the request that thread t serves
RequestStep(t) == thr'[t] # thr[t] /\ thr'[t].pc # "idle"

\* C12: the history is append-only across requests: every step of a request
\* leaves the records already there unchanged in content and position; a POST
\* /alerts request changes the history in one step only, which puts its record at
\* the end, and it is answered 200 only after that step.
C12_AppendOnly ==
    [][\A t \in Threads : RequestStep(t) =>
          /\ IsPrefix(alerts_history, alerts_history')
          /\ IF thr[t].kind = "post" /\ thr[t].pc = "append"
             THEN /\ thr[t].pos = 0
                  /\ Len(alerts_history') = Len(alerts_history) + 1
                  /\ alerts_history'[Len(alerts_history')] = thr[t].rec[1]
                  /\ thr'[t].pos = Len(alerts_history')
             ELSE /\ alerts_history' = alerts_history
                  /\ thr'[t].pos = (IF thr[t].pc \in {"idle", "done"} THEN 0 ELSE thr[t].pos)
          /\ (thr'[t].kind = "post" /\ thr'[t].pc = "done" /\ thr'[t].resp.code = 200
                => thr'[t].pos >= 1)]_vars

\* a POST answered 200 put its record behind the record of an earlier request,
\* which is still in first position
C12_Witness ==
    \E t, u \in Threads :
        /\ t # u
        /\ DonePost(t) /\ thr[t].resp.code = 200 /\ thr[t].pos = 2
        /\ DonePost(u) /\ thr[u].resp.code = 200 /\ thr[u].pos = 1
        /\ Len(alerts_history) = 2
        /\ alerts_history[1] = thr[u].rec[1]
        /\ alerts_history[2] = thr[t].rec[1]
        /\ alerts_history[1] # alerts_history[2]

PayloadLine == LogLine("INFO", "Received alert payload")

\* the request of thread t logged the inbound payload
PayloadLogged(s) == \E i \in 1..Len(s.log) : s.log[i] = PayloadLine

\* C13 as stated: every POST /alerts request, whatever its answer, logged the raw
\* inbound payload at informational level before anything else.
C13_PayloadAlwaysLogged ==
    \A t \in Threads : DonePost(t) => Len(thr[t].log) >= 1 /\ thr[t].log[1] = PayloadLine

\* C13: a POST /alerts request whose payload is not empty logs the raw inbound
\* payload at informational level as its first line, before process_alert logs
\* anything, whether it is answered 200 or 500; a request answered 400 logs the
\* warning only, and one whose body could not be read logs the error only.
C13_PayloadLoggedUnlessEmpty ==
    \A t \in Threads : thr[t].kind = "post" /\ thr[t].pc # "idle" =>
        IF thr[t].pc = "done" /\ thr[t].resp.code = 400
        THEN /\ thr[t].data.kind \in {"absent", "null", "empty"}
             /\ thr[t].log = << LogLine("WARNING", "Received empty alert payload") >>
        ELSE IF thr[t].data.kind = "absent"
        THEN /\ thr[t].pc = "done" /\ thr[t].resp.code = 500
             /\ thr[t].log = << LogLine("ERROR", "Error in receive_alert") >>
        ELSE /\ thr[t].data.kind \notin {"null", "empty"}
             /\ Len(thr[t].log) >= 1
             /\ thr[t].log[1] = PayloadLine
             /\ \A i \in 2..Len(thr[t].log) : thr[t].log[i] # PayloadLine
             /\ (thr[t].pc = "done" => thr[t].resp.code \in {200, 500} /\ Len(thr[t].log) >= 2)

\* one request was answered 400 without the payload line, another was answered
\* 500 by process_alert after the payload line
C13_Witness ==
    \E t, u \in Threads :
        /\ DonePost(t) /\ thr[t].resp.code = 400 /\ ~PayloadLogged(thr[t])
        /\ DonePost(u) /\ thr[u].resp.code = 500 /\ thr[u].log[1] = PayloadLine
        /\ thr[u].log[Len(thr[u].log)] = LogLine("ERROR", "Error processing alert")

LoadWarning == LogLine("WARNING", "Could not load alert history")

\* the process has started and has not accepted a request yet: the storage file is
\* the one load_history found
JustStarted == \A t \in Threads : thr[t].pc = "idle"

GetKinds == {"stats", "history", "severity"}

\* a GET request that was answered
DoneGet(t) == thr[t].kind \in GetKinds /\ thr[t].pc = "done"

\* threads t and u served the same GET request
SameGet(t, u) ==
    /\ thr[t].kind = thr[u].kind
    /\ thr[t].limit = thr[u].limit
    /\ thr[t].sev = thr[u].sev

\* C15: with no POST /alerts handled, two GET requests for the same route with the
\* same arguments are answered the same, and no step of a GET /stats, GET
\* /alerts-history or GET /alerts/<severity> request changes the history or the
\* storage file.
C15_QueriesReadOnly ==
    /\ [](\A t, u \in Threads :
             DoneGet(t) /\ DoneGet(u) /\ SameGet(t, u) => thr[t].resp = thr[u].resp)
    /\ [][\A t \in Threads :
             RequestStep(t) /\ thr'[t].kind \in GetKinds
                => alerts_history' = alerts_history /\ file' = file]_vars

\* GET /alerts-history?limit=1 was answered twice with the same last record of a
\* history of two different records, which the storage file still holds
C15_Witness ==
    \E t, u \in Threads :
        /\ t # u
        /\ DoneGet(t) /\ DoneGet(u) /\ SameGet(t, u)
        /\ thr[t].kind = "history" /\ thr[t].limit = Limit(1)
        /\ Len(alerts_history) = 2 /\ alerts_history[1] # alerts_history[2]
        /\ thr[t].resp.records = << alerts_history[2] >>
        /\ thr[u].resp.records = << alerts_history[2] >>
        /\ file.exists /\ WellFormed(file.content) /\ Parse(file.content) = alerts_history

\* a string without upper-case letters
IsLowerCase(s) ==
    \A i \in 1..Len(s) : \A k \in 1..Len(UpperChars) : s[i] # UpperChars[k]

\* C16: in every reachable state every record of the history has a severity that
\* is the payload's severity in lower case, 'unknown' when the payload carries
\* none, and a timestamp that is a reading of the clock made by the process, none
\* later than the latest reading.
C16_RecordsNormalised ==
    \A i \in 1..Len(alerts_history) :
        LET r == alerts_history[i] IN
        /\ IsLowerCase(r.severity)
        /\ EqualIgnoringCase(r.severity, PayloadSeverity(r.data))
        /\ (r.data.commonLabels.t # "dict" \/ r.data.commonLabels.v.t = "absent"
              => r.severity = S_unknown)
        /\ r.timestamp \in 0..now

\* the history holds a record whose payload spelled the severity High and one
\* whose payload carried no severity
C16_Witness ==
    \E i, j \in 1..Len(alerts_history) :
        /\ alerts_history[i].data.commonLabels = Dict(Str(V_High))
        /\ alerts_history[i].severity = V_high
        /\ alerts_history[j].data.commonLabels = NoDict
        /\ alerts_history[j].severity = S_unknown
        /\ alerts_history[i].timestamp # alerts_history[j].timestamp

\* C17: the records of the history are in chronological order: a record at an
\* earlier position has a timestamp no later than one at a later position.
C17_Chronological ==
    \A i, j \in 1..Len(alerts_history) :
        i < j => alerts_history[i].timestamp <= alerts_history[j].timestamp

\* the level the handler of a category logs at
ExpectedLevel(category) ==
    CASE category \in {"failed_logins", "intrusion"} -> "CRITICAL"
      [] category \in {"http_errors", "system_issues"} -> "WARNING"
      [] OTHER -> "none"

\* the description annotation of a payload, 'Unknown' when it carries none
PayloadDescription(alert_data) ==
    IF alert_data.commonAnnotations.t = "dict" /\ alert_data.commonAnnotations.v.t = "str"
    THEN alert_data.commonAnnotations.v.s ELSE S_Unknown

\* process_alert built the record of thread t's request
RecordBuilt(t) ==
    thr[t].kind = "post" /\ thr[t].pc \in {"append", "open", "dump", "close", "done"}

\* C18: once process_alert has built the record of an alert, and before it appends
\* it, the request has logged after its two informational lines: for a category
\* other than none the handler's header, the description annotation ('Unknown'
\* by default) and the remediation steps of the category in their order, all at
\* critical level for failed_logins and intrusion and at warning level for
\* http_errors and system_issues; for none no further line.  The record is then
\* appended and acknowledged whatever the category.
C18_HandlerLines ==
    \A t \in Threads : RecordBuilt(t) =>
        LET category == FirstMatch(Lower(cl_name))
            lines == SubSeq(thr[t].log, 3, Len(thr[t].log))
            steps == HandlerActions(category)
        IN  /\ SubSeq(thr[t].log, 1, 2) = PlainLog
            /\ (thr[t].pc = "append" => thr[t].pos = 0)
            /\ IF category = "none"
               THEN lines = <<>>
               ELSE /\ Len(lines) = 2 + Len(steps)
                    /\ \A i \in 1..Len(lines) : lines[i].level = ExpectedLevel(category)
                    /\ lines[1].msg = HandlerHeader(category) /\ lines[1].arg = <<>>
                    /\ lines[2].msg = "Description"
                    /\ lines[2].arg = PayloadDescription(thr[t].data)
                    /\ \A i \in 1..Len(steps) :
                         lines[2 + i].msg = steps[i] /\ lines[2 + i].arg = <<>>
            /\ (thr[t].pc = "done"
                  => /\ thr[t].resp.code = 200
                     /\ thr[t].pos \in 1..Len(alerts_history)
                     /\ alerts_history[thr[t].pos] = thr[t].rec[1]
                     /\ thr[t].rec[1].name = cl_name)

\* an alert named banned without a description was answered 200 after the
\* intrusion handler logged its header, the description Unknown and its six steps
\* at critical level
C18_Witness ==
    \E t \in Threads :
        /\ DonePost(t) /\ thr[t].resp.code = 200
        /\ cl_name = K_banned
        /\ thr[t].data.commonAnnotations = NoDict
        /\ Len(thr[t].log) = 10
        /\ thr[t].log[3] = LogLine("CRITICAL", "INTRUSION DETECTED - IP BANNED")
        /\ thr[t].log[4] = LogArg("CRITICAL", "Description", S_Unknown)
        /\ thr[t].log[10].level = "CRITICAL"
        /\ alerts_history[thr[t].pos] = thr[t].rec[1]

\* the request of thread t has appended its record
Appended(t) == thr[t].kind = "post" /\ thr[t].pos > 0

\* C19: whatever the interleaving of concurrent POST /alerts requests, the record
\* each request appended stays in the history at a position of its own and is the
\* record acknowledged to it; when every worker thread has served one request since
\* startup, a POST answered 200, the history holds exactly one record per request.
C19_NoLostAppend ==
    /\ \A t \in Threads : Appended(t) =>
          /\ thr[t].pos \in 1..Len(alerts_history)
          /\ alerts_history[thr[t].pos] = thr[t].rec[1]
          /\ (thr[t].pc = "done"
                => /\ thr[t].resp.code = 200
                   /\ AckOf(thr[t].resp.ack[1], alerts_history[thr[t].pos]))
    /\ \A t, u \in Threads : t # u /\ Appended(t) /\ Appended(u) => thr[t].pos # thr[u].pos
    /\ ((served = Cardinality(Threads)
          /\ \A t \in Threads : DonePost(t) /\ thr[t].resp.code = 200)
        => Len(alerts_history) = Cardinality(Threads))

\* two POSTs for different payloads overlapped between record construction and
\* append, both were answered 200, and the history holds the two records
C19_Witness ==
    \E t, u \in Threads :
        /\ t # u
        /\ served = Cardinality(Threads)
        /\ DonePost(t) /\ thr[t].resp.code = 200
        /\ DonePost(u) /\ thr[u].resp.code = 200
        /\ thr[t].rec # thr[u].rec
        /\ thr[t].rec[1].timestamp > thr[u].rec[1].timestamp
        /\ thr[t].pos = 1 /\ thr[u].pos = 2
        /\ alerts_history = thr[t].rec \o thr[u].rec

=============================================================================
